---- MODULE Spec2Model ----
(***************************************************************************)
(* Model of the cdistance engine of pyFileFixity (lib/distance/cdistance): *)
(* hamming, levenshtein, nlevenshtein, lcsubstrings and fastcomp, together *)
(* with the result handling of their *_py entry points.                    *)
(*                                                                         *)
(* The engine functions are pure; each is an operator computed the way the *)
(* C code computes it (same loops, same scratch rows, same sentinels).     *)
(* Init draws the two sequences, each action is one call of one entry      *)
(* point on them with its options and its environment (the ordinal of the  *)
(* oracle invocation that fails, the allocation that fails, the word that  *)
(* lies in front of the scratch row).  The streaming comparator           *)
(* (ilevenshtein, ifast_comp) has a specification of its own, SpecStream:  *)
(* an iterator is built on a reference and a candidate source, then pulled.*)
(***************************************************************************)
EXTENDS Integers, Sequences, FiniteSets

\* ---------------------------------------------------------------- bounds
MaxLen == 3        \* longest sequence drawn
NumSyms == 2       \* size of the element alphabet
MaxDist == 3       \* largest max_dist drawn
MaxFailAt == 3     \* latest oracle invocation that can be made to fail

StreamLen == 2       \* candidates in a candidate source
CandLen == 2         \* longest candidate of a candidate source
Alphabet == 1..NumSyms
Seqs == UNION {[1..n -> Alphabet] : n \in 0..MaxLen}

\* values the word in front of a malloc'ed row may hold (column[-1])
Garbage == {-1, 0, 1, MaxLen + MaxDist + 1}

\* what a candidate source hands out: sequences of the reference's kind,
\* and an object get_sequence rejects
Cand(q) == [ok |-> TRUE, seq |-> q]
WrongKind == [ok |-> FALSE, seq |-> <<>>]
Cands == {Cand(q) : q \in {x \in Seqs : Len(x) <= CandLen}} \cup {WrongKind}
Sources == UNION {[1..n -> Cands] : n \in 0..StreamLen}

\* ------------------------------------------------------- equality oracle
\* SEQUENCE_COMP(s1, i1, s2, i2) with 0-based indices: 1 equal, 0 not
\* equal, -1 failure.  n is the ordinal of this invocation within the call,
\* failAt the ordinal that fails (0: the native, infallible comparison).
SEQUENCE_COMPARE(s1, i1, s2, i2, n, failAt) ==
    IF n = failAt THEN -1
    ELSE IF s1[i1 + 1] = s2[i2 + 1] THEN 1 ELSE 0

MIN3_slip(a, b, c) ==
    IF a < b THEN (IF a < c THEN a ELSE c) ELSE (IF b < c THEN b ELSE a)

MIN3(a, b, c) ==
    IF a < b THEN (IF a < c THEN a ELSE c) ELSE (IF b < c THEN b ELSE c)

MAX3_slip(a, b, c) ==
    IF a > b THEN (IF a > c THEN a ELSE c) ELSE (IF b > c THEN b ELSE a)

MAX3(a, b, c) ==
    IF a > b THEN (IF a > c THEN a ELSE c) ELSE (IF b > c THEN b ELSE c)

\* ------------------------------------------------------------ allocator
\* What the call holds on the heap: for each of its buffers "uninit" (the
\* pointer was never assigned), "null" (malloc returned NULL), "live" or
\* "freed"; bad is set by a free of a buffer that is not live (free(NULL)
\* is a no-op) and by an access to a buffer that is not live.
NoHeap == [column |-> "uninit", length |-> "uninit", stack |-> "uninit", bad |-> FALSE]

Malloc(h, b, fails) == [h EXCEPT ![b] = IF fails THEN "null" ELSE "live"]

Free(h, b) ==
    IF h[b] = "live" THEN [h EXCEPT ![b] = "freed"]
    ELSE IF h[b] = "null" THEN h
    ELSE [h EXCEPT !.bad = TRUE]

Use(h, b) == IF h[b] = "live" THEN h ELSE [h EXCEPT !.bad = TRUE]

\* ------------------------------------------------------------ levenshtein
\* minimum(column, len): min = column[--len]; while (len-- >= 0) reads
\* column[len] after the decrement, so its last read is column[-1], outside
\* the row: that read yields the word lying there, oob.
\* min is the value returned, reads the set of indices of column read.
RECURSIVE minimum_loop(_, _, _, _, _)
minimum_loop(column, len, min, oob, reads) ==
    IF len >= 0
    THEN LET l == len - 1
             v == IF l < 0 THEN oob ELSE column[l]
         IN  minimum_loop(column, l, IF v < min THEN v ELSE min, oob, reads \cup {l})
    ELSE [min |-> min, reads |-> reads]

minimum(column, len, oob) ==
    minimum_loop(column, len - 1, column[len - 1], oob, {len - 1})

\* the length-gap short circuit of levenshtein
gap_exceeds_off(len1, len2, max_dist) ==
    max_dist >= 0 /\ (len1 - len2) >= max_dist

gap_exceeds(len1, len2, max_dist) ==
    max_dist >= 0 /\ (len1 - len2) > max_dist

\* inner loop of levenshtein: cells j..len2 of row i
\* (acc: the indices of column accessed so far)
RECURSIVE lev_cells(_, _, _, _, _, _, _)
lev_cells(c, i, j, column, last, n, acc) ==
    IF j > c.len2
    THEN [failed |-> FALSE, column |-> column, n |-> n, acc |-> acc]
    ELSE LET old  == column[j]
             comp == SEQUENCE_COMPARE(c.seq1, i - 1, c.seq2, j - 1, n + 1, c.failAt)
         IN  IF comp = -1
             THEN [failed |-> TRUE, column |-> column, n |-> n + 1, acc |-> acc \cup {j}]
             ELSE LET cost == IF comp = 0 THEN 1 ELSE 0
                      v    == MIN3(column[j] + 1, column[j - 1] + 1, last + cost)
                  IN  lev_cells(c, i, j + 1, [column EXCEPT ![j] = v], old, n + 1,
                                acc \cup {j, j - 1})

\* outer loop of levenshtein: rows i..len1, then the final cap check
\* free(column) on an exit of levenshtein
lev_release_leak(h) == h

lev_release(h) == Free(h, "column")

RECURSIVE lev_rows(_, _, _, _, _)
lev_rows(c, i, column, n, acc) ==
    IF i > c.len1
    THEN LET dist == column[c.len2]
         IN  [ret   |-> IF c.max_dist >= 0 /\ dist > c.max_dist THEN -1 ELSE dist,
              ncomp |-> n, rows |-> i - 1, idx |-> acc \cup {c.len2},
              heap  |-> lev_release(Use(c.heap, "column"))]
    ELSE LET r == lev_cells(c, i, 1, [column EXCEPT ![0] = i], i - 1, n, acc \cup {0})
             m == minimum(r.column, c.len2 + 1, c.oob)
         IN  IF r.failed
             THEN [ret |-> -3, ncomp |-> r.n, rows |-> i, idx |-> r.acc,
                   heap |-> lev_release(c.heap)]
             ELSE IF c.max_dist >= 0 /\ m.min > c.max_dist
             THEN [ret |-> -1, ncomp |-> r.n, rows |-> i, idx |-> r.acc \cup m.reads,
                   heap |-> lev_release(c.heap)]
             ELSE lev_rows(c, i + 1, r.column, r.n,
                           IF c.max_dist >= 0 THEN r.acc \cup m.reads ELSE r.acc)

\* levenshtein(seq1, seq2, len1, len2, max_dist).  The row is filled with
\* column[j] = j for j = 1..len2; column[0] is written at the start of each
\* row before anything reads it.  e is the environment of
\* the call: e.failAt, e.allocFail (ordinal of the malloc that returns
\* NULL, 0 for none), e.oob.  ret is the C return value, ncomp the number
\* of oracle invocations made, rows the number of DP rows evaluated, idx the
\* indices of column accessed, heap the heap of the call when it returns.
levenshtein(s1, s2, max_dist, e) ==
    LET swap == Len(s1) < Len(s2)
        seq1 == IF swap THEN s2 ELSE s1
        seq2 == IF swap THEN s1 ELSE s2
        len1 == Len(seq1)
        len2 == Len(seq2)
        h    == Malloc(NoHeap, "column", e.allocFail = 1)
        c    == [seq1 |-> seq1, seq2 |-> seq2, len1 |-> len1, len2 |-> len2,
                 max_dist |-> max_dist, failAt |-> e.failAt, oob |-> e.oob,
                 heap |-> h]
        early(v) == [ret |-> v, ncomp |-> 0, rows |-> 0, idx |-> {}, heap |-> NoHeap]
    IN  IF gap_exceeds(len1, len2, max_dist) THEN early(-1)
        ELSE IF len1 = 0 THEN early(len2)
        ELSE IF len2 = 0 THEN early(len1)
        ELSE IF h.column = "null"
        THEN [ret |-> -2, ncomp |-> 0, rows |-> 0, idx |-> {}, heap |-> h]
        ELSE lev_rows(c, 1, [x \in 0..len2 |-> x], 0, 1..len2)

\* ----------------------------------------------------------- nlevenshtein
\* inner loop of nlevenshtein, method 2: the cost row and the length row
\* (acc: the indices of column and of length accessed so far)
RECURSIVE nlev_cells(_, _, _, _, _, _, _, _, _)
nlev_cells(c, i, j, column, length, last, llast, n, acc) ==
    IF j > c.len2
    THEN [failed |-> FALSE, column |-> column, length |-> length, n |-> n,
          acc |-> acc]
    ELSE LET old  == column[j]
             ic   == column[j - 1] + 1
             dc   == column[j] + 1
             comp == SEQUENCE_COMPARE(c.seq1, i - 1, c.seq2, j - 1, n + 1, c.failAt)
         IN  IF comp = -1
             THEN [failed |-> TRUE, column |-> column, length |-> length, n |-> n + 1,
                   acc |-> acc \cup {j, j - 1}]
             ELSE LET rc   == last + (IF comp = 0 THEN 1 ELSE 0)
                      v    == MIN3(ic, dc, rc)
                      lold == length[j]
                      lic  == IF ic = v THEN length[j - 1] + 1 ELSE 0
                      ldc  == IF dc = v THEN length[j] + 1 ELSE 0
                      lrc  == IF rc = v THEN llast + 1 ELSE 0
                      lv   == MAX3(lic, ldc, lrc)
                  IN  nlev_cells(c, i, j + 1, [column EXCEPT ![j] = v],
                                 [length EXCEPT ![j] = lv], old, lold, n + 1,
                                 acc \cup {j, j - 1})

\* outer loop of nlevenshtein, method 2; the result is fdist / flen
\* free(column); free(length) on an exit of nlevenshtein
nlev_release(h) == Free(Free(h, "column"), "length")

RECURSIVE nlev_rows(_, _, _, _, _, _)
nlev_rows(c, i, column, length, n, acc) ==
    IF i > c.len1
    THEN [num |-> column[c.len2], den |-> length[c.len2], ncomp |-> n,
          idx |-> acc \cup {c.len2},
          heap |-> nlev_release(Use(Use(c.heap, "column"), "length"))]
    ELSE LET r == nlev_cells(c, i, 1, [column EXCEPT ![0] = i],
                             [length EXCEPT ![0] = i], i - 1, i - 1, n, acc \cup {0})
         IN  IF r.failed
             THEN [num |-> -2, den |-> 1, ncomp |-> r.n, idx |-> r.acc,
                   heap |-> nlev_release(c.heap)]
             ELSE nlev_rows(c, i + 1, r.column, r.length, r.n, r.acc)

\* the divisor of method 1: (double)len1, the longer length
nlev_factor1_short(len1, len2) == len2

nlev_factor1(len1, len2) == len1

\* nlevenshtein(seq1, seq2, len1, len2, method), called with len1 >= len2.
\* The double it returns is the exact ratio num / den (den = 1 for the
\* constants 0.0 and 1.0 and for the negative sentinels).
nlevenshtein(seq1, seq2, method, e) ==
    LET len1 == Len(seq1)
        len2 == Len(seq2)
        h1   == Malloc(NoHeap, "column", e.allocFail = 1)
        h2   == Malloc(h1, "length", e.allocFail = 2)
        c    == [seq1 |-> seq1, seq2 |-> seq2, len1 |-> len1, len2 |-> len2,
                 failAt |-> e.failAt, heap |-> h2]
        early(v) == [num |-> v, den |-> 1, ncomp |-> 0, idx |-> {}, heap |-> NoHeap]
    IN  IF len1 = 0 THEN early(0)
        ELSE IF len2 = 0 THEN early(1)
        ELSE IF method = 1
        THEN LET r == levenshtein(seq1, seq2, -1, e)
             IN  IF r.ret < 0
                 THEN [num |-> r.ret, den |-> 1, ncomp |-> r.ncomp,
                       idx |-> r.idx, heap |-> r.heap]
                 ELSE [num |-> r.ret, den |-> nlev_factor1(len1, len2),
                       ncomp |-> r.ncomp, idx |-> r.idx, heap |-> r.heap]
        ELSE IF h1.column = "null"
        THEN [num |-> -1, den |-> 1, ncomp |-> 0, idx |-> {}, heap |-> h1]
        ELSE IF h2.length = "null"
        THEN [num |-> -1, den |-> 1, ncomp |-> 0, idx |-> {},
              heap |-> Free(h2, "column")]
        ELSE nlev_rows(c, 1, [x \in 0..len2 |-> x], [x \in 0..len2 |-> x], 0, 1..len2)

\* nlevenshtein_py: method check, length-based swap, call, result handling
nlevenshtein_py_result(a1, a2, method, e) ==
    IF method # 1 /\ method # 2
    THEN [kind |-> "ValueError", ncomp |-> 0, idx |-> {}, heap |-> NoHeap]
    ELSE LET swap == Len(a1) < Len(a2)
             seq1 == IF swap THEN a2 ELSE a1
             seq2 == IF swap THEN a1 ELSE a2
             dist == nlevenshtein(seq1, seq2, method, e)
         IN  IF dist.num < 0
             THEN (IF dist.num = -1
                   THEN [kind |-> "MemoryError", ncomp |-> dist.ncomp,
                         idx |-> dist.idx, heap |-> dist.heap]
                   ELSE [kind |-> "ComparisonFailed", ncomp |-> dist.ncomp,
                         idx |-> dist.idx, heap |-> dist.heap])
             ELSE [kind |-> "float", num |-> dist.num, den |-> dist.den,
                   ncomp |-> dist.ncomp, idx |-> dist.idx, heap |-> dist.heap]

\* ---------------------------------------------------------------- hamming
\* the loop without its comp == -1 test
RECURSIVE hamming_loop_unchecked(_, _, _, _, _, _)
hamming_loop_unchecked(seq1, seq2, len, i, dist, failAt) ==
    IF i < len
    THEN LET comp == SEQUENCE_COMPARE(seq1, i, seq2, i, i + 1, failAt)
         IN  hamming_loop_unchecked(seq1, seq2, len, i + 1,
                                    IF comp = 0 THEN dist + 1 ELSE dist, failAt)
    ELSE [ret |-> dist, ncomp |-> i]

RECURSIVE hamming_loop(_, _, _, _, _, _)
hamming_loop(seq1, seq2, len, i, dist, failAt) ==
    IF i < len
    THEN LET comp == SEQUENCE_COMPARE(seq1, i, seq2, i, i + 1, failAt)
         IN  IF comp = -1 THEN [ret |-> -1, ncomp |-> i + 1]
             ELSE hamming_loop(seq1, seq2, len, i + 1,
                               IF comp = 0 THEN dist + 1 ELSE dist, failAt)
    ELSE [ret |-> dist, ncomp |-> i]

\* hamming(seq1, seq2, len)
hamming_skip_first(seq1, seq2, len, e) == hamming_loop(seq1, seq2, len, 1, 0, e.failAt)

hamming(seq1, seq2, len, e) == hamming_loop(seq1, seq2, len, 0, 0, e.failAt)

\* hamming_py: length check, call, result handling
hamming_py_result(a1, a2, do_normalize, e) ==
    LET len1 == Len(a1)
        len2 == Len(a2)
    IN  IF len1 # len2 THEN [kind |-> "ValueError", ncomp |-> 0]
        ELSE LET r == hamming(a1, a2, len1, e)
             IN  IF r.ret = -1 THEN [kind |-> "ComparisonFailed", ncomp |-> r.ncomp]
                 ELSE IF do_normalize
                 THEN (IF len1 = 0
                       THEN [kind |-> "float", num |-> 0, den |-> 1, ncomp |-> r.ncomp]
                       ELSE [kind |-> "float", num |-> r.ret, den |-> len1, ncomp |-> r.ncomp])
                 ELSE [kind |-> "int", val |-> r.ret, ncomp |-> r.ncomp]

\* --------------------------------------------------------------- fastcomp
\* the catalogue of models for a length difference: models[0..m]
fc_models_slip(ldiff) ==
    IF ldiff = 0 THEN << <<"r", "r">>, <<"d", "i">>, <<"i", "d">> >>
    ELSE IF ldiff = 1 THEN << <<"r", "d">>, <<"r", "d">> >>
    ELSE << <<"d", "d">> >>

fc_models(ldiff) ==
    IF ldiff = 0 THEN << <<"r", "r">>, <<"d", "i">>, <<"i", "d">> >>
    ELSE IF ldiff = 1 THEN << <<"r", "d">>, <<"d", "r">> >>
    ELSE << <<"d", "d">> >>

\* models[m][k], k 0-based; index 2 is the terminating NUL of the literal
fc_char(mod, k) == IF k < 2 THEN mod[k + 1] ELSE "nul"

\* the scripted operation for the c-th mismatch: the new <<i, j>>
fc_scripted(mod, i, j, c) ==
    IF fc_char(mod, c - 1) = "d" THEN <<i + 1, j>>
    ELSE IF fc_char(mod, c - 1) = "i" THEN <<i, j + 1>>
    ELSE <<i + 1, j + 1>>

\* the lockstep walk of one model: while (i < len1 && j < len2)
RECURSIVE fc_walk(_, _, _, _, _, _)
fc_walk(x, mod, i, j, c, n) ==
    IF ~(i < x.len1 /\ j < x.len2)
    THEN [failed |-> FALSE, i |-> i, j |-> j, c |-> c, n |-> n]
    ELSE
    LET comp == SEQUENCE_COMPARE(x.seq1, i, x.seq2, j, n + 1, x.failAt)
    IN
    IF comp = -1 THEN [failed |-> TRUE, i |-> i, j |-> j, c |-> c, n |-> n + 1]
    ELSE IF comp = 1 THEN fc_walk(x, mod, i + 1, j + 1, c, n + 1)
    ELSE
    LET c1 == c + 1
        s  == fc_scripted(mod, i, j, c1)
    IN
    IF c1 > 2 THEN [failed |-> FALSE, i |-> i, j |-> j, c |-> c1, n |-> n + 1]
    ELSE IF x.transpositions /\ x.ldiff # 2 /\ i < (x.len1 - 1) /\ j < (x.len2 - 1)
    THEN LET comp2 == SEQUENCE_COMPARE(x.seq1, i + 1, x.seq2, j, n + 2, x.failAt)
         IN  IF comp2 = -1
             THEN [failed |-> TRUE, i |-> i, j |-> j, c |-> c1, n |-> n + 2]
             ELSE IF comp2 = 1
             THEN LET comp3 == SEQUENCE_COMPARE(x.seq1, i, x.seq2, j + 1, n + 3, x.failAt)
                  IN  IF comp3 = -1
                      THEN [failed |-> TRUE, i |-> i, j |-> j, c |-> c1, n |-> n + 3]
                      ELSE IF comp3 = 1
                      THEN fc_walk(x, mod, i + 2, j + 2, c1, n + 3)
                      ELSE fc_walk(x, mod, s[1], s[2], c1, n + 3)
             ELSE fc_walk(x, mod, s[1], s[2], c1, n + 2)
    ELSE fc_walk(x, mod, s[1], s[2], c1, n + 1)

\* what is left after the walk of one model: the mismatch count of the
\* model, or 3 when the model is abandoned
fc_suffix(x, mod, w) ==
    IF w.c > 2 THEN 3
    ELSE IF w.i < x.len1
    THEN LET cnt == IF w.c = 1
                    THEN (IF fc_char(mod, 1) = "d" THEN 1 ELSE 0)
                    ELSE (IF fc_char(mod, 0) = "d" THEN 1 ELSE 0)
                         + (IF fc_char(mod, 1) = "d" THEN 1 ELSE 0)
         IN  IF x.len1 - w.i <= cnt THEN w.c + (x.len1 - w.i) ELSE 3
    ELSE IF w.j < x.len2
    THEN (IF x.len2 - w.j <= (IF fc_char(mod, w.c) = "i" THEN 1 ELSE 0)
          THEN w.c + (x.len2 - w.j) ELSE 3)
    ELSE w.c

\* for (; m >= 0; m--): the models from m down to 0
RECURSIVE fc_loop(_, _, _, _)
fc_loop(x, m, res, n) ==
    IF m < 0
    THEN [ret |-> IF res = 3 THEN -1 ELSE res, ncomp |-> n]
    ELSE LET mod == fc_models(x.ldiff)[m + 1]
             w   == fc_walk(x, mod, 0, 0, 0, n)
             c   == fc_suffix(x, mod, w)
         IN  IF w.failed THEN [ret |-> -2, ncomp |-> w.n]
             ELSE fc_loop(x, m - 1, IF c < res THEN c ELSE res, w.n)

\* fastcomp(seq1, seq2, len1, len2, transpositions)
fastcomp(s1, s2, transpositions, e) ==
    LET swap  == Len(s1) < Len(s2)
        seq1  == IF swap THEN s2 ELSE s1
        seq2  == IF swap THEN s1 ELSE s2
        len1  == Len(seq1)
        len2  == Len(seq2)
        ldiff == len1 - len2
        x     == [seq1 |-> seq1, seq2 |-> seq2, len1 |-> len1, len2 |-> len2,
                  ldiff |-> ldiff, transpositions |-> transpositions,
                  failAt |-> e.failAt]
    IN  IF ldiff > 2 THEN [ret |-> -1, ncomp |-> 0]
        ELSE fc_loop(x, 2 - ldiff, 3, 0)

\* fastcomp_py: length-based swap, call, result handling
fastcomp_py_result(a1, a2, transpositions, e) ==
    LET swap == Len(a1) < Len(a2)
        seq1 == IF swap THEN a2 ELSE a1
        seq2 == IF swap THEN a1 ELSE a2
        dist == fastcomp(seq1, seq2, transpositions, e)
    IN  IF dist.ret = -2 THEN [kind |-> "ComparisonFailed", ncomp |-> dist.ncomp]
        ELSE [kind |-> "int", val |-> dist.ret, ncomp |-> dist.ncomp]

\* ----------------------------------------------------------- lcsubstrings
\* what a matching cell of run length v does to the stack of positions:
\* clear and reseed on a new maximum, append on a tie
lcs_record_first(stack, mlen, v, i, j) ==
    IF v > mlen THEN << <<i, j>> >> ELSE stack

lcs_record(stack, mlen, v, i, j) ==
    IF v > mlen THEN << <<i, j>> >>
    ELSE IF v = mlen THEN Append(stack, <<i, j>>)
    ELSE stack

\* the two nested loops of lcsubstrings; last survives from row to row
\* On_Error: free(column); utarray_free(stack)
lcs_on_error(h) == Free(Free(h, "column"), "stack")

\* (acc: the indices of column accessed so far)
RECURSIVE lcs_loop(_, _, _, _, _, _, _, _, _)
lcs_loop(c, i, j, column, last, mlen, stack, n, acc) ==
    IF i >= c.len1
    THEN [null |-> FALSE, stack |-> stack, max_len |-> mlen, ncomp |-> n,
          idx |-> acc, heap |-> Free(c.heap, "column")]
    ELSE IF j >= c.len2
    THEN lcs_loop(c, i + 1, 0, column, last, mlen, stack, n, acc)
    ELSE
    LET old  == column[j]
        comp == SEQUENCE_COMPARE(c.seq1, i, c.seq2, j, n + 1, c.failAt)
    IN
    IF comp = -1
    THEN [null |-> TRUE, stack |-> <<>>, max_len |-> c.max_len, ncomp |-> n + 1,
          idx |-> acc \cup {j}, heap |-> lcs_on_error(c.heap)]
    ELSE IF comp = 1
    THEN LET v == IF i = 0 \/ j = 0 THEN 1 ELSE last + 1
             col == [column EXCEPT ![j] = v]
         IN  lcs_loop(c, i, j + 1, col, old, IF v > mlen THEN v ELSE mlen,
                      lcs_record(stack, mlen, v, i, j), n + 1, acc \cup {j})
    ELSE lcs_loop(c, i, j + 1, [column EXCEPT ![j] = 0], old, mlen, stack, n + 1,
                  acc \cup {j})

\* lcsubstrings(seq1, seq2, len1, len2, &max_len), called with
\* len1 >= len2.  The row has len2 + 1 entries of which 0..len2-1 are
\* filled with column[j] = j and used.  max_len is the value the caller's
\* variable holds before the call; it is left alone when NULL is returned.
lcsubstrings(seq1, seq2, max_len, e) ==
    LET len1 == Len(seq1)
        len2 == Len(seq2)
        h0   == Malloc(NoHeap, "stack", FALSE)
        h    == Malloc(h0, "column", e.allocFail = 1)
        c    == [seq1 |-> seq1, seq2 |-> seq2, len1 |-> len1, len2 |-> len2,
                 max_len |-> max_len, failAt |-> e.failAt, heap |-> h]
    IN  IF len2 = 0
        THEN [null |-> FALSE, stack |-> <<>>, max_len |-> 0, ncomp |-> 0,
              idx |-> {}, heap |-> h0]
        ELSE IF h.column = "null"
        THEN [null |-> TRUE, stack |-> <<>>, max_len |-> max_len, ncomp |-> 0,
              idx |-> {}, heap |-> lcs_on_error(h)]
        ELSE lcs_loop(c, 0, 0, [x \in 0..len2 |-> x], 0, -1, <<>>, 0, 0..(len2 - 1))

\* PySequence_GetSlice(o, i1, i2) for 0 <= i1 <= i2 <= len(o)
GetSlice(o, i1, i2) == SubSeq(o, i1 + 1, i2)

\* lcsubstrings_py_make_tuple: (mlen, ((i - mlen + 1, j - mlen + 1), ...))
lcsubstrings_py_make_tuple(a1, a2, stack, mlen) ==
    [k \in 1..Len(stack) |-> <<stack[k][1] - mlen + 1, stack[k][2] - mlen + 1>>]

\* lcsubstrings_py_make_set: the slices of arg2 ending at each position
lcsubstrings_py_make_set(a1, a2, stack, mlen) ==
    {GetSlice(a2, stack[k][2] - mlen + 1, stack[k][2] + 1) : k \in 1..Len(stack)}

\* lcsubstrings_py: length-based swap of the arguments, call, result
lcsubstrings_py_result(a1, a2, positions, e) ==
    LET swap == Len(a1) < Len(a2)
        s1   == IF swap THEN a2 ELSE a1
        s2   == IF swap THEN a1 ELSE a2
        r    == lcsubstrings(s1, s2, -1, e)
    IN  IF r.null
        THEN [kind |-> "MemoryError", ncomp |-> r.ncomp, idx |-> r.idx, heap |-> r.heap]
        ELSE IF positions
        THEN [kind |-> "tuple", mlen |-> r.max_len, stack |-> r.stack,
              positions |-> lcsubstrings_py_make_tuple(s1, s2, r.stack, r.max_len),
              ncomp |-> r.ncomp, idx |-> r.idx, heap |-> r.heap]
        ELSE [kind |-> "set", mlen |-> r.max_len, stack |-> r.stack,
              substrings |-> lcsubstrings_py_make_set(s1, s2, r.stack, r.max_len),
              ncomp |-> r.ncomp, idx |-> r.idx, heap |-> r.heap]

\* -------------------------------------------------------------- iterators
\* what one call of tp_iternext hands back: an item (dist, cand), the end of
\* the stream, or an error; pulled counts the PyIter_Next calls that
\* returned a candidate
ItorOut(kind, dist, cand, pulled) ==
    [kind |-> kind, dist |-> dist, cand |-> cand, pulled |-> pulled]

\* if (dist != -1) return (dist, arg2)
itor_emits_nonneg(dist) == dist >= -1

itor_emits(dist) == dist # -1

\* what the loop does with a candidate that is not emitted
itor_skip_stop(itor) == <<>>

itor_skip(itor) == Tail(itor)

\* while ((arg2 = PyIter_Next(state->itor)) != NULL) of ilevenshtein_next
RECURSIVE ilevenshtein_next_loop(_, _, _, _)
ilevenshtein_next_loop(st, itor, e, n) ==
    IF itor = <<>>
    THEN [itor |-> itor, out |-> ItorOut("StopIteration", 0, <<>>, n)]
    ELSE LET arg2 == Head(itor)
             dist == levenshtein(st.seq1, arg2.seq, st.max_dist, e).ret
         IN  IF ~arg2.ok
             THEN [itor |-> Tail(itor), out |-> ItorOut("TypeError", 0, <<>>, n + 1)]
             ELSE IF dist < -1
             THEN [itor |-> Tail(itor),
                   out  |-> ItorOut(IF dist = -2 THEN "MemoryError"
                                    ELSE "ComparisonFailed", 0, <<>>, n + 1)]
             ELSE IF itor_emits(dist)
             THEN [itor |-> Tail(itor), out |-> ItorOut("item", dist, arg2.seq, n + 1)]
             ELSE ilevenshtein_next_loop(st, itor_skip(itor), e, n + 1)

\* while ((arg2 = PyIter_Next(state->itor)) != NULL) of ifastcomp_next
RECURSIVE ifastcomp_next_loop(_, _, _, _)
ifastcomp_next_loop(st, itor, e, n) ==
    IF itor = <<>>
    THEN [itor |-> itor, out |-> ItorOut("StopIteration", 0, <<>>, n)]
    ELSE LET arg2 == Head(itor)
             dist == fastcomp(st.seq1, arg2.seq, st.transpos, e).ret
         IN  IF ~arg2.ok
             THEN [itor |-> Tail(itor), out |-> ItorOut("TypeError", 0, <<>>, n + 1)]
             ELSE IF dist = -2
             THEN [itor |-> Tail(itor), out |-> ItorOut("ComparisonFailed", 0, <<>>, n + 1)]
             ELSE IF itor_emits(dist)
             THEN [itor |-> Tail(itor), out |-> ItorOut("item", dist, arg2.seq, n + 1)]
             ELSE ifastcomp_next_loop(st, itor_skip(itor), e, n + 1)

\* ------------------------------------------------------------------ state
VARIABLES
    arg1,   \* the caller's first sequence
    arg2,   \* the caller's second sequence
    op,     \* the entry point that was called ("idle" before the call)
    opt,    \* the options of the call
    env,    \* the environment of the call
    ret,    \* what the call produced
    state,  \* the ItorState of the streaming comparator
    seqs,   \* the candidate source the iterator was built on
    log     \* what each tp_iternext call so far handed back

vars == <<arg1, arg2, op, opt, env, ret, state, seqs, log>>

stream == <<state, seqs, log>>

\* no iterator has been built
NoItor == [type |-> "none", seq1 |-> <<>>, max_dist |-> -1, transpos |-> FALSE,
           itor |-> <<>>]

NoEnv == [failAt |-> 0, allocFail |-> 0, oob |-> 0]

Init ==
    /\ arg1 \in Seqs
    /\ arg2 \in Seqs
    /\ op = "idle"
    /\ opt = [none |-> TRUE]
    /\ env = NoEnv
    /\ ret = [kind |-> "none"]
    /\ state = NoItor
    /\ seqs = <<>>
    /\ log = <<>>

\* levenshtein_py without normalized: the value built from dist
levenshtein_py ==
    /\ op = "idle"
    /\ \E max_dist \in -1..MaxDist, failAt \in 0..MaxFailAt, allocFail \in 0..1 :
       \E oob \in (IF max_dist >= 0 THEN Garbage ELSE {0}) :
          LET e == [failAt |-> failAt, allocFail |-> allocFail, oob |-> oob]
              r == levenshtein(arg1, arg2, max_dist, e)
          IN  /\ op' = "levenshtein"
              /\ opt' = [max_dist |-> max_dist]
              /\ env' = e
              /\ ret' = IF r.ret < -1
                        THEN (IF r.ret = -2
                              THEN [kind |-> "MemoryError", ncomp |-> r.ncomp,
                                    rows |-> r.rows, idx |-> r.idx, heap |-> r.heap]
                              ELSE [kind |-> "ComparisonFailed", ncomp |-> r.ncomp,
                                    rows |-> r.rows, idx |-> r.idx, heap |-> r.heap])
                        ELSE [kind |-> "int", val |-> r.ret, ncomp |-> r.ncomp,
                              rows |-> r.rows, idx |-> r.idx, heap |-> r.heap]
    /\ UNCHANGED <<arg1, arg2>>
    /\ UNCHANGED stream

\* levenshtein_py with normalized: hands over to nlevenshtein_py with the
\* positional arguments only, so method is 1 and max_dist is dropped
levenshtein_py_normalized ==
    /\ op = "idle"
    /\ \E max_dist \in -1..MaxDist, failAt \in 0..MaxFailAt, allocFail \in 0..1 :
          LET e == [failAt |-> failAt, allocFail |-> allocFail, oob |-> 0]
          IN  /\ op' = "levenshtein_normalized"
              /\ opt' = [max_dist |-> max_dist]
              /\ env' = e
              /\ ret' = nlevenshtein_py_result(arg1, arg2, 1, e)
    /\ UNCHANGED <<arg1, arg2>>
    /\ UNCHANGED stream

nlevenshtein_py ==
    /\ op = "idle"
    /\ \E method \in 1..3, failAt \in 0..MaxFailAt, allocFail \in 0..2 :
          LET e == [failAt |-> failAt, allocFail |-> allocFail, oob |-> 0]
          IN  /\ op' = "nlevenshtein"
              /\ opt' = [method |-> method]
              /\ env' = e
              /\ ret' = nlevenshtein_py_result(arg1, arg2, method, e)
    /\ UNCHANGED <<arg1, arg2>>
    /\ UNCHANGED stream

hamming_py ==
    /\ op = "idle"
    /\ \E do_normalize \in BOOLEAN, failAt \in 0..MaxFailAt :
          LET e == [failAt |-> failAt, allocFail |-> 0, oob |-> 0]
          IN  /\ op' = "hamming"
              /\ opt' = [normalized |-> do_normalize]
              /\ env' = e
              /\ ret' = hamming_py_result(arg1, arg2, do_normalize, e)
    /\ UNCHANGED <<arg1, arg2>>
    /\ UNCHANGED stream

fastcomp_py ==
    /\ op = "idle"
    /\ \E transpositions \in BOOLEAN, failAt \in 0..MaxFailAt :
          LET e == [failAt |-> failAt, allocFail |-> 0, oob |-> 0]
          IN  /\ op' = "fastcomp"
              /\ opt' = [transpositions |-> transpositions]
              /\ env' = e
              /\ ret' = fastcomp_py_result(arg1, arg2, transpositions, e)
    /\ UNCHANGED <<arg1, arg2>>
    /\ UNCHANGED stream

lcsubstrings_py ==
    /\ op = "idle"
    /\ \E positions \in BOOLEAN, failAt \in 0..MaxFailAt, allocFail \in 0..1 :
          LET e == [failAt |-> failAt, allocFail |-> allocFail, oob |-> 0]
          IN  /\ op' = "lcsubstrings"
              /\ opt' = [positions |-> positions]
              /\ env' = e
              /\ ret' = lcsubstrings_py_result(arg1, arg2, positions, e)
    /\ UNCHANGED <<arg1, arg2>>
    /\ UNCHANGED stream

Next ==
    \/ levenshtein_py
    \/ levenshtein_py_normalized
    \/ nlevenshtein_py
    \/ hamming_py
    \/ fastcomp_py
    \/ lcsubstrings_py

Spec == Init /\ [][Next]_vars

\* ------------------------------------------------- the streaming comparator
\* a reference and a candidate source, before the iterator is built
InitStream ==
    /\ arg1 \in Seqs
    /\ arg2 = <<>>
    /\ op = "idle"
    /\ opt = [none |-> TRUE]
    /\ env = NoEnv
    /\ ret = [kind |-> "none"]
    /\ state = NoItor
    /\ seqs \in Sources
    /\ log = <<>>

ilevenshtein_new ==
    /\ op = "idle"
    /\ \E max_dist \in -1..MaxDist :
          /\ op' = "ilevenshtein"
          /\ opt' = [max_dist |-> max_dist]
          /\ state' = [type |-> "ilevenshtein", seq1 |-> arg1, max_dist |-> max_dist,
                       transpos |-> FALSE, itor |-> seqs]
    /\ UNCHANGED <<arg1, arg2, env, ret, seqs, log>>

ifastcomp_new ==
    /\ op = "idle"
    /\ \E transpositions \in BOOLEAN :
          /\ op' = "ifastcomp"
          /\ opt' = [transpositions |-> transpositions]
          /\ state' = [type |-> "ifastcomp", seq1 |-> arg1, max_dist |-> -1,
                       transpos |-> transpositions, itor |-> seqs]
    /\ UNCHANGED <<arg1, arg2, env, ret, seqs, log>>

\* one pull on the ilevenshtein iterator
ilevenshtein_next ==
    /\ op = "ilevenshtein"
    /\ Len(log) <= StreamLen
    /\ \E failAt \in 0..1, allocFail \in 0..1 :
       \E oob \in (IF state.max_dist >= 0 THEN Garbage ELSE {0}) :
          LET e == [failAt |-> failAt, allocFail |-> allocFail, oob |-> oob]
              r == ilevenshtein_next_loop(state, state.itor, e, 0)
          IN  /\ state' = [state EXCEPT !.itor = r.itor]
              /\ log' = Append(log, r.out)
    /\ UNCHANGED <<arg1, arg2, op, opt, env, ret, seqs>>

\* one pull on the ifast_comp iterator
ifastcomp_next ==
    /\ op = "ifastcomp"
    /\ Len(log) <= StreamLen
    /\ \E failAt \in 0..1 :
          LET e == [failAt |-> failAt, allocFail |-> 0, oob |-> 0]
              r == ifastcomp_next_loop(state, state.itor, e, 0)
          IN  /\ state' = [state EXCEPT !.itor = r.itor]
              /\ log' = Append(log, r.out)
    /\ UNCHANGED <<arg1, arg2, op, opt, env, ret, seqs>>

NextStream ==
    \/ ilevenshtein_new
    \/ ifastcomp_new
    \/ ilevenshtein_next
    \/ ifastcomp_next

SpecStream == InitStream /\ [][NextStream]_vars

\* ------------------------------------------------- reference definitions
\* the call met no oracle failure and no allocation failure
NoFailure == env.failAt = 0 /\ env.allocFail = 0

\* the sequences one single-element edit away from x (within MaxLen)
OneEdit(x) ==
    {[x EXCEPT ![p] = s] : p \in 1..Len(x), s \in Alphabet}
    \cup {SubSeq(x, 1, p - 1) \o SubSeq(x, p + 1, Len(x)) : p \in 1..Len(x)}
    \cup (IF Len(x) < MaxLen
          THEN {SubSeq(x, 1, p) \o <<s>> \o SubSeq(x, p + 1, Len(x)) :
                    p \in 0..Len(x), s \in Alphabet}
          ELSE {})

\* the number of rounds of single edits after which b is first reached
RECURSIVE EditRounds(_, _, _)
EditRounds(S, b, d) ==
    IF b \in S THEN d
    ELSE EditRounds(S \cup UNION {OneEdit(x) : x \in S}, b, d + 1)

\* edit distance: the least number of single-element insert / delete /
\* substitute operations that transform a into b
EditDistance(a, b) == EditRounds({a}, b, 0)

\* C1: capping law.  A levenshtein call with a bound k >= 0 that meets no
\* failure returns the value of the uncapped call when the true edit
\* distance is <= k and -1 (ExceedsBound) when it is > k, in either
\* argument order and also when one or both sequences are empty.
C1_CappingLaw ==
    (op = "levenshtein" /\ opt.max_dist >= 0 /\ NoFailure) =>
        /\ ret.kind = "int"
        /\ ret.val = IF EditDistance(arg1, arg2) <= opt.max_dist
                     THEN levenshtein(arg1, arg2, -1, NoEnv).ret
                     ELSE -1

\* a capped call on a shorter first argument that ran the DP and was cut
C1_Witness ==
    /\ op = "levenshtein" /\ opt.max_dist >= 1 /\ NoFailure
    /\ Len(arg1) < Len(arg2) /\ Len(arg1) > 0
    /\ ret.kind = "int" /\ ret.val = -1 /\ ret.rows >= 1

\* C2: without a bound and without failure, levenshtein returns the edit
\* distance of its arguments, whichever of them is the longer.
C2_EditDistance ==
    (op = "levenshtein" /\ opt.max_dist < 0 /\ NoFailure) =>
        /\ ret.kind = "int"
        /\ ret.val = EditDistance(arg1, arg2)

\* an uncapped call on a shorter first argument at distance >= 2
C2_Witness ==
    /\ op = "levenshtein" /\ opt.max_dist < 0 /\ NoFailure
    /\ Len(arg1) < Len(arg2) /\ Len(arg1) > 0
    /\ ret.kind = "int" /\ ret.val >= 2 /\ ret.rows = Len(arg2)

\* C3: bounded comparator agreement.  With transpositions disabled and no
\* failure, fastcomp returns the value of levenshtein when that value is
\* 0, 1 or 2 and -1 ("greater") when it is more than 2, whatever the
\* length difference.
C3_FastcompAgrees ==
    (op = "fastcomp" /\ ~opt.transpositions /\ NoFailure) =>
        LET lev == levenshtein(arg1, arg2, -1, NoEnv).ret
        IN  /\ ret.kind = "int"
            /\ ret.val = IF lev <= 2 THEN lev ELSE -1

\* a comparison at length difference 1 that needed both scripted operations
C3_Witness ==
    /\ op = "fastcomp" /\ ~opt.transpositions /\ NoFailure
    /\ Len(arg2) - Len(arg1) = 1
    /\ ret.kind = "int" /\ ret.val = 2

\* C4: the transposition shortcut dominates.  Whenever fastcomp without
\* transpositions returns a distance d in {0, 1, 2}, fastcomp with
\* transpositions returns a distance that is not -1 and is <= d.
C4_TranspositionDominates ==
    (op = "fastcomp" /\ opt.transpositions /\ NoFailure
        /\ fastcomp(arg1, arg2, FALSE, NoEnv).ret \in {0, 1, 2}) =>
        /\ ret.kind = "int"
        /\ ret.val # -1
        /\ ret.val <= fastcomp(arg1, arg2, FALSE, NoEnv).ret

\* the sequences as the engine sees them after the length-based swap
Longer  == IF Len(arg1) < Len(arg2) THEN arg2 ELSE arg1
Shorter == IF Len(arg1) < Len(arg2) THEN arg1 ELSE arg2

\* the greatest element of a non-empty finite set of integers
MaxOf(S) == CHOOSE v \in S : \A w \in S : w <= v

\* length of the common run of a and b that ends at the 0-based positions
\* i of a and j of b (0 when the two elements differ)
CommonRunAt(a, b, i, j) ==
    MaxOf({n \in 0..((IF i < j THEN i ELSE j) + 1) :
              \A k \in 0..(n - 1) : a[i + 1 - k] = b[j + 1 - k]})

\* length of the longest contiguous run of elements occurring in a and b
LongestCommonRun(a, b) ==
    MaxOf({n \in 0..Len(b) :
              \E p \in 1..(Len(a) - n + 1), q \in 1..(Len(b) - n + 1) :
                  SubSeq(a, p, p + n - 1) = SubSeq(b, q, q + n - 1)})

\* C5: LCS run length.  For len(A) >= len(B), the run length returned by
\* lcs is the length of the longest contiguous run common to A and B, also
\* when they share no element, and it is never negative.
C5_LcsRunLength ==
    (op = "lcsubstrings" /\ NoFailure /\ Len(arg1) >= Len(arg2)) =>
        /\ ret.mlen = LongestCommonRun(arg1, arg2)
        /\ ret.mlen >= 0

\* C6: LCS tie enumeration.  The returned positions hold, once each, every
\* pair of end positions at which a common run of the maximum length ends,
\* and no pair whose run is shorter than the returned length.
C6_LcsTies ==
    (op = "lcsubstrings" /\ NoFailure) =>
        /\ \A k, l \in 1..Len(ret.stack) : ret.stack[k] = ret.stack[l] => k = l
        /\ {ret.stack[k] : k \in 1..Len(ret.stack)} =
               {p \in (0..(Len(Longer) - 1)) \X (0..(Len(Shorter) - 1)) :
                    /\ CommonRunAt(Longer, Shorter, p[1], p[2]) >= 1
                    /\ CommonRunAt(Longer, Shorter, p[1], p[2])
                           = LongestCommonRun(Longer, Shorter)}
        /\ \A k \in 1..Len(ret.stack) :
               CommonRunAt(Longer, Shorter, ret.stack[k][1], ret.stack[k][2]) = ret.mlen

\* a result with two tied positions found after a shorter run was dropped
C6_Witness ==
    /\ op = "lcsubstrings" /\ NoFailure
    /\ Len(ret.stack) >= 2 /\ ret.mlen >= 2

\* C7: LCS positions are in the caller's operand order.  Each returned
\* pair is (start in the caller's seq1, start in the caller's seq2), also
\* when len(seq1) < len(seq2); the slices of the caller's seq1 and seq2
\* of the returned length at the pair are identical.
C7_LcsCallerOrder ==
    (op = "lcsubstrings" /\ NoFailure /\ opt.positions) =>
        \A k \in 1..Len(ret.positions) :
            LET p == ret.positions[k]
            IN  /\ p[1] \in 0..(Len(arg1) - ret.mlen)
                /\ p[2] \in 0..(Len(arg2) - ret.mlen)
                /\ GetSlice(arg1, p[1], p[1] + ret.mlen)
                       = GetSlice(arg2, p[2], p[2] + ret.mlen)

\* C8: Hamming outcome.  hamming fails with the length-mismatch error
\* whenever the lengths differ; otherwise, when no comparison fails, it
\* returns the number of indices at which the sequences differ, a value in
\* 0..len that is 0 for length 0.
C8_Hamming ==
    (op = "hamming") =>
        /\ Len(arg1) # Len(arg2) => ret.kind = "ValueError"
        /\ (Len(arg1) = Len(arg2) /\ ~opt.normalized /\ NoFailure) =>
               /\ ret.kind = "int"
               /\ ret.val = Cardinality({i \in 1..Len(arg1) : arg1[i] # arg2[i]})
               /\ ret.val \in 0..Len(arg1)

\* a count over sequences that differ at the first index and agree elsewhere
C8_Witness ==
    /\ op = "hamming" /\ ~opt.normalized /\ NoFailure
    /\ Len(arg1) = Len(arg2) /\ Len(arg1) >= 2
    /\ arg1[1] # arg2[1]
    /\ ret.kind = "int" /\ ret.val = 1

\* every alignment of the first i elements of a with the first j elements
\* of b, as a pair <<edit cost, number of operations>>: a deletion or an
\* insertion costs 1, a substitution 1, a match 0, each is one operation
RECURSIVE Alignments(_, _, _, _)
Alignments(a, b, i, j) ==
    IF i = 0 /\ j = 0 THEN {<<0, 0>>}
    ELSE (IF i > 0
          THEN {<<p[1] + 1, p[2] + 1>> : p \in Alignments(a, b, i - 1, j)}
          ELSE {})
         \cup
         (IF j > 0
          THEN {<<p[1] + 1, p[2] + 1>> : p \in Alignments(a, b, i, j - 1)}
          ELSE {})
         \cup
         (IF i > 0 /\ j > 0
          THEN {<<p[1] + (IF a[i] = b[j] THEN 0 ELSE 1), p[2] + 1>> :
                    p \in Alignments(a, b, i - 1, j - 1)}
          ELSE {})

\* the greatest number of operations of an edit script of minimal cost
LongestMinimalScript(a, b) ==
    MaxOf({p[2] : p \in {q \in Alignments(a, b, Len(a), Len(b)) :
                             q[1] = EditDistance(a, b)}})

\* C9: normalization bounds, both methods.  Without failure nlevenshtein
\* returns 0 when both sequences are empty and 1 when exactly one is;
\* otherwise the ratio of an integer cost to an integer factor with
\* factor > 0 and 0 <= cost <= factor, the cost being 0 iff A = B.
C9_NormalizationBounds ==
    (op = "nlevenshtein" /\ opt.method \in {1, 2} /\ NoFailure) =>
        /\ ret.kind = "float"
        /\ (Len(arg1) = 0 /\ Len(arg2) = 0) => (ret.num = 0 /\ ret.den = 1)
        /\ ((Len(arg1) = 0) # (Len(arg2) = 0)) => (ret.num = 1 /\ ret.den = 1)
        /\ (Len(arg1) > 0 /\ Len(arg2) > 0) =>
               /\ ret.den > 0
               /\ 0 <= ret.num /\ ret.num <= ret.den
               /\ (ret.num = 0) <=> (arg1 = arg2)

\* a method-1 result strictly between 0 and 1 on sequences of unequal length
C9_Witness ==
    /\ op = "nlevenshtein" /\ opt.method = 1 /\ NoFailure
    /\ Len(arg1) > 0 /\ Len(arg1) < Len(arg2)
    /\ ret.kind = "float" /\ 0 < ret.num /\ ret.num < ret.den

\* C10: normalized method 2.  For non-empty A and B and no failure, the
\* final edit cost is the edit distance of A and B and the final alignment
\* length is the greatest number of operations (matches, substitutions,
\* insertions, deletions) of an edit script that achieves that cost.
C10_Method2 ==
    (op = "nlevenshtein" /\ opt.method = 2 /\ NoFailure
        /\ Len(arg1) > 0 /\ Len(arg2) > 0) =>
        /\ ret.kind = "float"
        /\ ret.num = EditDistance(arg1, arg2)
        /\ ret.den = LongestMinimalScript(Longer, Shorter)

\* a method-2 result whose alignment is longer than the longer sequence
C10_Witness ==
    /\ op = "nlevenshtein" /\ opt.method = 2 /\ NoFailure
    /\ Len(arg1) > 0 /\ Len(arg2) > 0
    /\ ret.kind = "float" /\ ret.num >= 2 /\ ret.den > Len(Longer)

\* ------------------------------------------- claims on the streaming comparator
\* the number of candidates the iterator has taken from its source
Consumed == Len(seqs) - Len(state.itor)

\* no pull so far ended in an error
CleanLog == \A k \in 1..Len(log) : log[k].kind \in {"item", "StopIteration"}

\* the distance the stream is to report for candidate c, -1 when c is to
\* be dropped
StreamDistance(c) ==
    IF state.type = "ilevenshtein"
    THEN LET d == EditDistance(state.seq1, c)
         IN  IF state.max_dist >= 0 /\ d > state.max_dist THEN -1 ELSE d
    ELSE IF ~state.transpos
    THEN LET d == EditDistance(state.seq1, c)
         IN  IF d > 2 THEN -1 ELSE d
    ELSE fastcomp_py_result(state.seq1, c, TRUE, NoEnv).val

\* the pairs (distance, candidate) of the qualifying candidates of src, in
\* source order
RECURSIVE Qualifying(_)
Qualifying(src) ==
    IF src = <<>> THEN <<>>
    ELSE LET d == StreamDistance(Head(src).seq)
         IN  IF d = -1 THEN Qualifying(Tail(src))
             ELSE << <<d, Head(src).seq>> >> \o Qualifying(Tail(src))

\* the pairs (distance, candidate) produced so far, in order
RECURSIVE Items(_)
Items(l) ==
    IF l = <<>> THEN <<>>
    ELSE IF Head(l).kind = "item"
    THEN << <<Head(l).dist, Head(l).cand>> >> \o Items(Tail(l))
    ELSE Items(Tail(l))

\* the number of candidates read by the first k pulls
RECURSIVE PulledBy(_)
PulledBy(k) == IF k = 0 THEN 0 ELSE PulledBy(k - 1) + log[k].pulled

\* C11: streaming filter exactness.  While no pull has failed, the items
\* produced so far are exactly, in source order, the pairs (distance, c) of
\* the candidates c consumed so far that qualify (Levenshtein distance
\* <= the bound, every candidate when the bound is negative; fastcomp
\* result 0, 1 or 2); no sentinel distance is emitted, and the stream ends
\* only when the whole source has been consumed.
C11_StreamExact ==
    (state.type # "none" /\ CleanLog) =>
        /\ Items(log) = Qualifying(SubSeq(seqs, 1, Consumed))
        /\ \A k \in 1..Len(log) : log[k].kind = "item" => log[k].dist >= 0
        /\ \A k \in 1..Len(log) : log[k].kind = "StopIteration" => Consumed = Len(seqs)

\* a stream run to its end that dropped its first candidate and produced
\* its second
C11_Witness ==
    /\ state.type # "none" /\ CleanLog
    /\ Len(seqs) = 2 /\ Len(log) = 2
    /\ log[1].kind = "item" /\ log[1].cand = seqs[2].seq
    /\ log[2].kind = "StopIteration"

\* C12 (as stated): every produced item was preceded by exactly one read of
\* the candidate source since the previous item or the stream start.
C12_OnePullPerItem ==
    \A k \in 1..Len(log) : log[k].kind = "item" => log[k].pulled = 1

\* C12 (amended): each pull reads candidates one at a time until one
\* qualifies, fails or the source ends.  A produced item is the last
\* candidate read by its pull, every candidate read earlier by the same pull
\* was of the right kind and did not qualify, a pull that signals the end of
\* the stream has read all that remained of the source, and nothing is read
\* from the source outside the pulls.
C12_PullsUntilQualifying ==
    state.type # "none" =>
        /\ PulledBy(Len(log)) = Consumed
        /\ \A k \in 1..Len(log) :
              LET from == PulledBy(k - 1)
                  upto == PulledBy(k)
                  skipped == IF log[k].kind = "StopIteration"
                             THEN (from + 1)..upto ELSE (from + 1)..(upto - 1)
              IN  /\ log[k].kind # "StopIteration" => log[k].pulled >= 1
                  /\ log[k].kind = "StopIteration" => upto = Len(seqs)
                  /\ log[k].kind = "item" =>
                        /\ seqs[upto] = Cand(log[k].cand)
                        /\ log[k].dist = StreamDistance(log[k].cand)
                  /\ \A p \in skipped : seqs[p].ok /\ StreamDistance(seqs[p].seq) = -1

\* a single pull that read two candidates, dropped the first and produced
\* the second
C12_Witness ==
    /\ state.type # "none"
    /\ Len(log) >= 1 /\ log[1].kind = "item" /\ log[1].pulled = 2
    /\ seqs[2] = Cand(log[1].cand)
    /\ StreamDistance(seqs[1].seq) = -1

\* --------------------------------------------------- claims on failure paths
\* the call's equality oracle failed: the call made its failAt-th invocation
OracleFailed == op # "idle" /\ env.failAt >= 1 /\ ret.ncomp >= env.failAt

\* the call's scratch allocation failed
AllocFailed ==
    /\ op # "idle" /\ env.allocFail >= 1
    /\ ret.heap.column = "null" \/ ret.heap.length = "null"

\* C13: when the equality oracle fails during lcsubstrings, the outcome of
\* the call is the comparison failure, never the MemoryError of a failed
\* scratch allocation.
C13_LcsOracleFailure ==
    (op = "lcsubstrings" /\ OracleFailed) =>
        /\ ret.kind = "ComparisonFailed"
        /\ ret.kind # "MemoryError"

\* C14: nlevenshtein reports failures with the same meaning under both
\* methods: a failed scratch allocation gives MemoryError and a failed
\* comparison gives ComparisonFailed, under method 1 and under method 2.
C14_NlevFailureKinds ==
    (op = "nlevenshtein" /\ opt.method \in {1, 2}) =>
        /\ AllocFailed => ret.kind = "MemoryError"
        /\ OracleFailed => ret.kind = "ComparisonFailed"

\* C15: a failed comparison is never treated as NotEqual.  In hamming,
\* levenshtein, nlevenshtein (method 2) and fastcomp (lookahead comparisons
\* included), once an oracle invocation of the call fails the call returns
\* ComparisonFailed, the failing invocation is the last one the call makes,
\* and no count or distance is handed back.
C15_FailedIsNotNotEqual ==
    (/\ OracleFailed
     /\ \/ op \in {"hamming", "levenshtein", "fastcomp"}
        \/ op = "nlevenshtein" /\ opt.method = 2) =>
        /\ ret.kind = "ComparisonFailed"
        /\ ret.ncomp = env.failAt
        /\ DOMAIN ret \cap {"val", "num", "den"} = {}

\* the second lookahead comparison of fastcomp, its third invocation, fails
C15_Witness ==
    /\ op = "fastcomp" /\ opt.transpositions /\ env.failAt = 3
    /\ Len(arg1) = Len(arg2) /\ Len(arg1) >= 2
    /\ arg1[1] # arg2[1] /\ arg1[2] = arg2[1]
    /\ ret.kind = "ComparisonFailed" /\ ret.ncomp = 3

\* ------------------------------------------------- claims on the DP rows
\* the least entry of DP row i of levenshtein: the least edit distance between
\* the first i elements of the longer argument and a prefix of the shorter
RowMin(i) ==
    LET a == SubSeq(Longer, 1, i)
        ds == {EditDistance(a, SubSeq(Shorter, 1, j)) : j \in 0..Len(Shorter)}
    IN  CHOOSE d \in ds : \A x \in ds : d <= x

\* the rows of the DP whose least entry exceeds the bound
RowsOverBound == {i \in 1..Len(Longer) : RowMin(i) > opt.max_dist}

\* the capped call ran the DP: no early return and no failure
RanCappedDP ==
    /\ op = "levenshtein" /\ opt.max_dist >= 0 /\ NoFailure
    /\ Len(Shorter) > 0
    /\ Len(Longer) - Len(Shorter) <= opt.max_dist

\* C16: early row abort.  In a capped levenshtein call, as soon as a DP row
\* is completed whose least entry exceeds max_dist the call returns -1
\* (ExceedsBound) and no later row is evaluated.
C16_EarlyRowAbort ==
    (RanCappedDP /\ RowsOverBound # {}) =>
        /\ ret.kind = "int" /\ ret.val = -1
        /\ ret.rows = CHOOSE i \in RowsOverBound : \A x \in RowsOverBound : i <= x

\* C18: DP row accesses stay in bounds.  In levenshtein (row-minimum scan
\* included), nlevenshtein and lcsubstrings every index used on a DP row is
\* in 0..min(len1, len2), inside the min(len1, len2) + 1 entries of the row.
C18_RowAccessInBounds ==
    (op \in {"levenshtein", "levenshtein_normalized", "nlevenshtein", "lcsubstrings"}) =>
        ret.idx \subseteq 0..Len(Shorter)

\* ------------------------------------------------- claims on scratch memory
\* C17: scratch release.  On every exit path of levenshtein, nlevenshtein and
\* lcsubstrings each scratch row the call allocated has been freed, exactly
\* once, and was not accessed after being freed; on a failed lcsubstrings
\* the position stack is freed as well, and on a successful one the stack is
\* the only allocation that survives.
C17_ScratchRelease ==
    (op \in {"levenshtein", "levenshtein_normalized", "nlevenshtein", "lcsubstrings"}) =>
        /\ ~ret.heap.bad
        /\ ret.heap.column # "live"
        /\ ret.heap.length # "live"
        /\ op # "lcsubstrings" => ret.heap.stack = "uninit"
        /\ op = "lcsubstrings" =>
              ret.heap.stack = IF ret.kind = "MemoryError" THEN "freed" ELSE "live"

\* a comparison failed in nlevenshtein method 2 after both rows were
\* allocated, and both were freed
C17_Witness ==
    /\ op = "nlevenshtein" /\ opt.method = 2
    /\ ret.kind = "ComparisonFailed" /\ ret.ncomp >= 2
    /\ ret.heap.column = "freed" /\ ret.heap.length = "freed"

\* ------------------------------------------- claims on the alignment length
\* C19: for non-empty arguments, the alignment length that method 2 divides
\* by lies between the longer length and the sum of the lengths, so the
\* method-2 value is never greater than the method-1 value of the same pair
\* (compared by cross-multiplication).
C19_AlignmentLengthBounds ==
    (/\ op = "nlevenshtein" /\ opt.method = 2 /\ NoFailure
     /\ Len(arg1) > 0 /\ Len(arg2) > 0) =>
        LET m1 == nlevenshtein_py_result(arg1, arg2, 1, NoEnv)
        IN  /\ ret.kind = "float"
            /\ Len(Longer) <= ret.den
            /\ ret.den <= Len(arg1) + Len(arg2)
            /\ ret.num * m1.den <= m1.num * ret.den

\* a pair whose alignment is strictly longer than its longer argument, so
\* that method 2 is strictly below method 1
C19_Witness ==
    /\ op = "nlevenshtein" /\ opt.method = 2 /\ NoFailure
    /\ Len(arg1) > 0 /\ Len(arg2) > 0
    /\ ret.kind = "float"
    /\ ret.den > Len(Longer)
    /\ ret.num * Len(Longer) < EditDistance(arg1, arg2) * ret.den

====
